---------------------------- MODULE Spec2Model ----------------------------
(***************************************************************************)
(* A model of the game-tree search of sallkall/python_games:               *)
(*   game.py            GameState / Game base classes                      *)
(*   subtract_square.py the number-subtraction game                        *)
(*   chopsticks.py      the finger-transfer game                           *)
(*   stonehenge.py      the line-claiming board game (state only)          *)
(*   strategy.py        recursive and iterative minimax                    *)
(*                                                                         *)
(* A Python string is modelled as the sequence of its pieces, a Python     *)
(* list as a sequence, a dict as a function, None as the empty sequence    *)
(* (and a returned value v as <<v>>).                                      *)
(***************************************************************************)
EXTENDS Integers, Sequences, FiniteSets, TLC

VARIABLES
    current_state,    \* game.current_state, the Game's cursor
    root,             \* history: the cursor when the search was called
    engine,           \* "none", "recursive" or "iterative": the search called
    pc,               \* "idle", "while", "select", "returned", "IndexError"
    result,           \* what the search returned: <<move>>, or <<>> for None
    moves,            \* iterative_minimax_strategy: moves
    stack,            \* iterative_minimax_strategy: stack
    stack_length,     \* iterative_minimax_strategy: stack_length
    evaluated_state,  \* iterative_minimax_strategy: evaluated_state
    repushed,         \* history: the identities of the nodes popped and pushed
                      \*   back since evaluated_state last grew
    spun,             \* history: a node was popped and pushed back twice with
                      \*   nothing added to evaluated_state in between
    call,             \* the last make_move call: the state it was applied to,
                      \*   the move, what it returned and raised (<<>>: no call)
    heap,             \* the dicts and lists the state objects refer to
    objs              \* the state objects created, by reference

vars == <<current_state, root, engine, pc, result, moves, stack, stack_length,
          evaluated_state, repushed, spun, call, heap, objs>>

\* the locals and the history of a search
searchVars == <<root, engine, pc, result, moves, stack, stack_length,
                evaluated_state, repushed, spun>>

\* the objects of the heap view
heapVars == <<heap, objs>>

---------------------------------------------------------------------------
(* Bounds of the model. *)

\* the largest number a number-subtraction game is started with
MaxStart == 9

\* the longest work stack the finger-transfer search is followed to
MaxStack == 10

---------------------------------------------------------------------------
(* game.py *)

PLAYERS == <<"p1", "p2">>

WIN == 1

LOSE == -1

\* list.index: the 0-based place of x in seq
IndexOf(seq, x) == (CHOOSE i \in 1..Len(seq) : seq[i] = x) - 1

GetNextPlayerSame(player) == player

\* GameState.get_next_player
GetNextPlayer(player) ==
    PLAYERS[((IndexOf(PLAYERS, player) + 1) % Len(PLAYERS)) + 1]

---------------------------------------------------------------------------
(* subtract_square.py *)

SubtractSquareGameState(player, number) ==
    [player |-> player, number |-> number]

\* the while loop with i ** 2 <= self.number + 1 as its test
RECURSIVE SubSquaresFromOneMore(_, _)
SubSquaresFromOneMore(i, number) ==
    IF i * i <= number + 1
    THEN <<i * i>> \o SubSquaresFromOneMore(i + 1, number)
    ELSE <<>>

\* the while loop with i ** 2 < self.number as its test
RECURSIVE SubSquaresFromStrict(_, _)
SubSquaresFromStrict(i, number) ==
    IF i * i < number
    THEN <<i * i>> \o SubSquaresFromStrict(i + 1, number)
    ELSE <<>>

\* the while loop of get_possible_moves, from counter i on
RECURSIVE SubSquaresFrom(_, _)
SubSquaresFrom(i, number) ==
    IF i * i <= number
    THEN <<i * i>> \o SubSquaresFrom(i + 1, number)
    ELSE <<>>

SubGetPossibleMoves(s) == SubSquaresFrom(1, s.number)

SubMakeMoveNoSubtract(s, move_to_make) ==
    SubtractSquareGameState(GetNextPlayer(s.player), s.number)

SubMakeMove(s, move_to_make) ==
    SubtractSquareGameState(GetNextPlayer(s.player), s.number - move_to_make)

\* SubtractSquareGameState.__str__
SubStr(s) == <<"[player = ", s.player, ", number = ", s.number, "]">>

\* SubtractSquareGame.is_over
SubIsOver(state) == Len(SubGetPossibleMoves(state)) = 0

\* SubtractSquareGame.is_winner, cur being self.current_state
SubIsWinner(cur, player) == SubIsOver(cur) /\ cur.player # player

---------------------------------------------------------------------------
(* chopsticks.py *)

LEFT_HAND == "l"

RIGHT_HAND == "r"

ALL_HANDS == <<LEFT_HAND, RIGHT_HAND>>

ChopsticksGameState(player, hands) == [player |-> player, hands |-> hands]

\* ChopsticksGame.__init__: every hand starts at 1
ChopStart(player) ==
    ChopsticksGameState(player,
        [p \in {"p1", "p2"} |-> [h \in {LEFT_HAND, RIGHT_HAND} |-> 1]])

GetCurrentHands(s) == s.hands[s.player]

\* the moves of from_hand whether the hand is alive or not
ChopMovesOfAnyHand(s, from_hand) ==
    [i \in 1..Len(ALL_HANDS) |-> <<from_hand, ALL_HANDS[i]>>]

\* the moves of from_hand: one per to_hand, if the hand is alive
ChopMovesOfHand(s, from_hand) ==
    IF GetCurrentHands(s)[from_hand] > 0
    THEN [i \in 1..Len(ALL_HANDS) |-> <<from_hand, ALL_HANDS[i]>>]
    ELSE <<>>

RECURSIVE ChopMovesFrom(_, _)
ChopMovesFrom(s, i) ==
    IF i > Len(ALL_HANDS) THEN <<>>
    ELSE ChopMovesOfHand(s, ALL_HANDS[i]) \o ChopMovesFrom(s, i + 1)

\* ChopsticksGameState.get_possible_moves; a move 'lr' is <<"l", "r">>
ChopGetPossibleMoves(s) == ChopMovesFrom(s, 1)

ChopMakeMoveNoWrap(s, move_to_make) ==
    LET player == s.player
        enemy  == GetNextPlayer(s.player)
        new_hands == s.hands
    IN  ChopsticksGameState(enemy,
            [new_hands EXCEPT ![enemy][move_to_make[2]] =
                new_hands[enemy][move_to_make[2]] + new_hands[player][move_to_make[1]]])

\* ChopsticksGameState.make_move, on values (get_hands_copy copies both
\* players' dicts, so the new hands share nothing with the old)
ChopMakeMove(s, move_to_make) ==
    LET player == s.player
        enemy  == GetNextPlayer(s.player)
        new_hands == s.hands
    IN  ChopsticksGameState(enemy,
            [new_hands EXCEPT ![enemy][move_to_make[2]] =
                (new_hands[enemy][move_to_make[2]]
                    + new_hands[player][move_to_make[1]]) % 5])

\* ChopsticksGameState.__str__: the dict keeps its insertion order p1, p2
ChopStr(s) ==
    <<"[player = ", s.player, ", hands = ",
      "p1", ": ", s.hands["p1"][LEFT_HAND], "-", s.hands["p1"][RIGHT_HAND], ", ",
      "p2", ": ", s.hands["p2"][LEFT_HAND], "-", s.hands["p2"][RIGHT_HAND], "]">>

\* ChopsticksGame.is_over
ChopIsOver(state) ==
    \E i \in 1..Len(PLAYERS) :
        /\ state.hands[PLAYERS[i]][LEFT_HAND] = 0
        /\ state.hands[PLAYERS[i]][RIGHT_HAND] = 0

\* is_winner without the look at the enemy's hands
ChopIsWinnerWhenOver(cur, player) == ChopIsOver(cur)

\* ChopsticksGame.is_winner, cur being self.current_state
ChopIsWinner(cur, player) ==
    LET enemy == GetNextPlayer(player)
    IN  /\ ChopIsOver(cur)
        /\ cur.hands[enemy][LEFT_HAND] = 0
        /\ cur.hands[enemy][RIGHT_HAND] = 0

---------------------------------------------------------------------------
(* stonehenge.py, on values *)

NOT_USED == "x"

P1_CLAIMED == "1"

P2_CLAIMED == "2"

NOT_CLAIMED == "@"

\* string.ascii_uppercase
ASCII_UPPERCASE ==
    <<"A", "B", "C", "D", "E", "F", "G", "H", "I", "J", "K", "L", "M",
      "N", "O", "P", "Q", "R", "S", "T", "U", "V", "W", "X", "Y", "Z">>

\* get_row_lines
GetRowLines(nodes) ==
    [i \in 1..Len(nodes) |-> SelectSeq(nodes[i], LAMBDA cell : cell # NOT_USED)]

\* add_to_line(nodes, x, y, line), x and y counted from 0: the line it leaves
AddToLine(nodes, x, y, line) ==
    IF x < 0 \/ x >= Len(nodes) THEN line
    ELSE IF y < 0 \/ y >= Len(nodes) THEN line
    ELSE IF nodes[x + 1][y + 1] = NOT_USED THEN line
    ELSE Append(line, nodes[x + 1][y + 1])

\* the inner loop of get_down_left_lines, from i on
RECURSIVE DownLeftLine(_, _, _, _)
DownLeftLine(nodes, sum_up, i, line) ==
    IF i > sum_up THEN line
    ELSE DownLeftLine(nodes, sum_up, i + 1, AddToLine(nodes, i, sum_up - i, line))

\* the outer loop of get_down_left_lines, from sum_up on
RECURSIVE DownLeftLinesFrom(_, _)
DownLeftLinesFrom(nodes, sum_up) ==
    IF sum_up >= 2 * Len(nodes) - 2 THEN <<>>
    ELSE LET line == DownLeftLine(nodes, sum_up, 0, <<>>)
         IN  (IF Len(line) > 0 THEN <<line>> ELSE <<>>)
                \o DownLeftLinesFrom(nodes, sum_up + 1)

GetDownLeftLines(nodes) == DownLeftLinesFrom(nodes, 0)

\* the inner loop of get_down_right_lines, from i on
RECURSIVE DownRightLine(_, _, _, _)
DownRightLine(nodes, j, i, line) ==
    IF i >= Len(nodes) THEN line
    ELSE DownRightLine(nodes, j, i + 1, AddToLine(nodes, i, j, line))

GetDownRightLines(nodes) ==
    [j \in 1..Len(nodes) |-> DownRightLine(nodes, j - 1, 0, <<>>)]

\* the number of cells of line that are mark
CountOf(line, mark) == Len(SelectSeq(line, LAMBDA cell : cell = mark))

\* get_max_by_value, given the two counts
GetMaxByValue(count1, count2) ==
    IF count1 > count2 THEN P1_CLAIMED
    ELSE IF count2 > count1 THEN P2_CLAIMED
    ELSE NOT_CLAIMED

\* get_claimer: counter[max_player] >= len(line) / 2
GetClaimer(line) ==
    LET count1 == CountOf(line, P1_CLAIMED)
        count2 == CountOf(line, P2_CLAIMED)
        max_player == GetMaxByValue(count1, count2)
    IN  IF max_player # NOT_CLAIMED
           /\ 2 * (IF max_player = P1_CLAIMED THEN count1 ELSE count2) >= Len(line)
        THEN max_player
        ELSE NOT_CLAIMED

\* get_update_lines
GetUpdateLines(claim_marks, lines) ==
    [i \in 1..Len(claim_marks) |->
        IF i <= Len(lines)
           /\ claim_marks[i] = NOT_CLAIMED /\ GetClaimer(lines[i]) # NOT_CLAIMED
        THEN GetClaimer(lines[i])
        ELSE claim_marks[i]]

StoneHengeState(is_p1_turn, nodes, row_line_claimers, left_line_claimers, right_line_claimers) ==
    [p1_turn |-> is_p1_turn, nodes |-> nodes,
     row_line_claimers |-> row_line_claimers,
     left_line_claimers |-> left_line_claimers,
     right_line_claimers |-> right_line_claimers]

\* the cells create_start_henge_state leaves unused
HengeUnused(i, j, size) == i + j < size - 2 \/ (i = size - 1 /\ j = size - 1)

\* the number of used cells before cell (i, j), row by row
HengeIndex(i, j, size) ==
    Cardinality({c \in (0..(size - 1)) \X (0..(size - 1)) :
                    /\ ~HengeUnused(c[1], c[2], size)
                    /\ (c[1] < i \/ (c[1] = i /\ c[2] < j))})

\* create_start_henge_state
CreateStartHengeState(is_p1_turn, side_length) ==
    LET size == side_length + 1
        nodes == [i \in 1..size |-> [j \in 1..size |->
                    IF HengeUnused(i - 1, j - 1, size) THEN NOT_USED
                    ELSE ASCII_UPPERCASE[HengeIndex(i - 1, j - 1, size) + 1]]]
        unclaimed == [i \in 1..size |-> NOT_CLAIMED]
    IN  StoneHengeState(is_p1_turn, nodes, unclaimed, unclaimed, unclaimed)

\* the "update nodes" loops of make_move
HengeUpdatedNodes(s, move) ==
    [i \in 1..Len(s.nodes) |-> [j \in 1..Len(s.nodes[i]) |->
        IF s.nodes[i][j] = move
        THEN (IF s.p1_turn THEN P1_CLAIMED ELSE P2_CLAIMED)
        ELSE s.nodes[i][j]]]

\* StoneHengeState.make_move
HengeMakeMove(s, move) ==
    LET updated_nodes == HengeUpdatedNodes(s, move)
    IN  StoneHengeState(~s.p1_turn, updated_nodes,
            GetUpdateLines(s.row_line_claimers, GetRowLines(updated_nodes)),
            GetUpdateLines(s.left_line_claimers, GetDownLeftLines(updated_nodes)),
            GetUpdateLines(s.right_line_claimers, GetDownRightLines(updated_nodes)))

\* StoneHengeState.get_winner: <<>> is None
HengeGetWinner(s) ==
    LET claimers == s.row_line_claimers \o s.left_line_claimers \o s.right_line_claimers
        count1 == CountOf(claimers, P1_CLAIMED)
        count2 == CountOf(claimers, P2_CLAIMED)
    IN  IF count1 = count2 /\ 2 * count1 = Len(claimers) THEN <<>>
        ELSE IF 2 * count1 >= Len(claimers) THEN <<"p1">>
        ELSE IF 2 * count2 >= Len(claimers) THEN <<"p2">>
        ELSE <<>>

\* the cells of nodes, row by row
RECURSIVE Flatten(_)
Flatten(nodes) == IF nodes = <<>> THEN <<>> ELSE Head(nodes) \o Flatten(Tail(nodes))

\* StoneHengeState.get_possible_moves
HengeGetPossibleMoves(s) ==
    IF HengeGetWinner(s) # <<>> THEN <<>>
    ELSE SelectSeq(Flatten(s.nodes),
                   LAMBDA cell : cell \notin {NOT_USED, P1_CLAIMED, P2_CLAIMED})

\* get_current_player_name of a StoneHengeState: by the game_state module,
\* the name that goes with the p1_turn flag (get_winner gives these names)
HengeGetCurrentPlayerName(s) == IF s.p1_turn THEN "p1" ELSE "p2"

\* the last lines of rough_outcome: key = P1_CLAIMED only until the next
\* line sets key = P2_CLAIMED; max([1, counter[key] / len(claimers) / 2]) * 2 - 1
\* with both sides of the max taken times 2 * len(claimers)
HengeRoughEstimate(s) ==
    LET claimers == s.row_line_claimers \o s.left_line_claimers \o s.right_line_claimers
        key   == P2_CLAIMED
        twice == 2 * Len(claimers)
        top   == IF CountOf(claimers, key) > twice THEN CountOf(claimers, key) ELSE twice
    IN  (2 * top - twice) \div twice

\* StoneHengeState.rough_outcome
RECURSIVE HengeRoughOutcome(_)
HengeRoughOutcome(s) ==
    IF HengeGetWinner(s) = <<HengeGetCurrentPlayerName(s)>> THEN 1
    ELSE IF HengeGetWinner(s) # <<>> /\ HengeGetWinner(s) # <<HengeGetCurrentPlayerName(s)>>
         THEN -1
    ELSE IF \E i \in 1..Len(HengeGetPossibleMoves(s)) :
                HengeRoughOutcome(HengeMakeMove(s, HengeGetPossibleMoves(s)[i])) = 1
         THEN -1
    ELSE HengeRoughEstimate(s)

\* a str of the program is the sequence of its characters
Spaces(count) == [i \in 1..count |-> " "]

\* indent(line, count)
Indent(line, count) == Spaces(count) \o line

\* sep.join(items)
RECURSIVE JoinStr(_, _)
JoinStr(sep, items) ==
    IF items = <<>> THEN <<>>
    ELSE IF Len(items) = 1 THEN items[1]
    ELSE items[1] \o sep \o JoinStr(sep, Tail(items))

\* the cells or claim marks of a list, each as a str
AsStrs(line) == [i \in 1..Len(line) |-> <<line[i]>>]

\* [piece] * count
Repeat(piece, count) == [i \in 1..count |-> piece]

\* row_claimers[i] + ' - ' + ' - '.join(row)
HengeRowLine(claimer, row) ==
    <<claimer>> \o <<" ", "-", " ">> \o JoinStr(<<" ", "-", " ">>, AsStrs(row))

\* line += '   ' + left_claimers.pop(0), while claimers are left
HengeWithClaimer(line, left_claimers, i) ==
    IF i <= Len(left_claimers) THEN line \o Spaces(3) \o <<left_claimers[i]>> ELSE line

\* ' '.join([link] * count) + tail
HengeLinkLine(link, count, tail) == JoinStr(<<" ">>, Repeat(link, count)) \o tail

\* the "body (before central row)" loop of __str__ from row i on (from 1):
\* the line of the row, then a link line
RECURSIVE HengeBodyLines(_, _, _, _)
HengeBodyLines(row_lines, row_claimers, left_claimers, i) ==
    IF i > Len(row_lines) - 1 THEN <<>>
    ELSE << HengeWithClaimer(HengeRowLine(row_claimers[i], row_lines[i]), left_claimers, i),
            HengeLinkLine(<<"/", " ", "\\">>, Len(row_lines[i]), <<" ", "/">>) >>
            \o HengeBodyLines(row_lines, row_claimers, left_claimers, i + 1)

\* the "add indents" loop of __str__ from line i on (from 0)
RECURSIVE HengeIndentLines(_, _, _, _)
HengeIndentLines(outputs, i, count, dec) ==
    IF i >= Len(outputs) THEN <<>>
    ELSE LET line == IF i % 2 = 0 /\ i # 0 /\ i # Len(outputs) - 1
                     THEN Indent(outputs[i + 1], count - 4)
                     ELSE Indent(outputs[i + 1], count)
             still_dec == dec /\ count # 4
         IN  <<line>> \o HengeIndentLines(outputs, i + 1,
                            IF still_dec THEN count - 1 ELSE count + 1, still_dec)

\* the "body (last row)" and "last two lines" parts of __str__: the link
\* line before the last row is written over, then three lines are added
HengeLastLines(before, row, last_row_claimer, right_claimers) ==
    [before EXCEPT ![Len(before)] = HengeLinkLine(<<"\\", " ", "/">>, Len(row), <<" ", "\\">>)]
        \o << HengeRowLine(last_row_claimer, row)
                 \o Spaces(3) \o <<right_claimers[Len(right_claimers)]>>,
              JoinStr(Spaces(3), Repeat(<<"\\">>, Len(row))),
              JoinStr(Spaces(3), AsStrs(SubSeq(right_claimers, 1, Len(right_claimers) - 1))) >>

\* left_claimers[:2]
FirstTwo(left_claimers) ==
    SubSeq(left_claimers, 1, IF Len(left_claimers) < 2 THEN Len(left_claimers) ELSE 2)

\* outputs of __str__ before the indents are added
HengeOutputs(row_lines, left_claimers, right_claimers, row_claimers) ==
    HengeLastLines(
        << JoinStr(Spaces(3), AsStrs(FirstTwo(left_claimers))), <<"/", " ", " ", " ", "/">> >>
            \o HengeBodyLines(row_lines, row_claimers,
                              SubSeq(left_claimers, 3, Len(left_claimers)), 1),
        row_lines[Len(row_lines)], row_claimers[Len(row_claimers)], right_claimers)

\* StoneHengeState.__str__
HengeStr(s) ==
    JoinStr(<<"\n">>,
            HengeIndentLines(HengeOutputs(GetRowLines(s.nodes), s.left_line_claimers,
                                          s.right_line_claimers, s.row_line_claimers),
                             0, 4 + 2 * (Len(s.nodes) - 1), TRUE))

---------------------------------------------------------------------------
(* The methods as the search calls them: Python dispatches on the class of *)
(* the state (and of its game).                                            *)

IsSubtractSquare(s) == "number" \in DOMAIN s

IsChopsticks(s) == "hands" \in DOMAIN s

GetPossibleMoves(s) ==
    IF IsSubtractSquare(s) THEN SubGetPossibleMoves(s)
    ELSE IF IsChopsticks(s) THEN ChopGetPossibleMoves(s)
    ELSE HengeGetPossibleMoves(s)

MakeMove(s, m) ==
    IF IsSubtractSquare(s) THEN SubMakeMove(s, m)
    ELSE IF IsChopsticks(s) THEN ChopMakeMove(s, m)
    ELSE HengeMakeMove(s, m)

GetCurrentPlayerName(s) == s.player

StateStr(s) ==
    IF IsSubtractSquare(s) THEN SubStr(s)
    ELSE IF IsChopsticks(s) THEN ChopStr(s)
    ELSE HengeStr(s)

IsOver(s) == IF IsSubtractSquare(s) THEN SubIsOver(s) ELSE ChopIsOver(s)

IsWinner(cur, player) ==
    IF IsSubtractSquare(cur) THEN SubIsWinner(cur, player) ELSE ChopIsWinner(cur, player)

---------------------------------------------------------------------------
(* strategy.py: the recursive engine.  A call that repoints the cursor     *)
(* returns the cursor beside its value.                                    *)

\* max(scores), min(scores)
MaxOf(scores) == CHOOSE x \in {scores[i] : i \in 1..Len(scores)} :
                    \A i \in 1..Len(scores) : scores[i] <= x

\* the opponent's level taking the largest score
MinOfTakesLargest(scores) == MaxOf(scores)

MinOf(scores) == CHOOSE x \in {scores[i] : i \in 1..Len(scores)} :
                    \A i \in 1..Len(scores) : x <= scores[i]

\* get_score returning WIN whoever has won
GetScoreAlwaysWin(state, player, cur) == [score |-> WIN, cursor |-> state]

GetScoreSwapped(state, player, cur) ==
    [score  |-> IF IsWinner(state, player) THEN LOSE ELSE WIN,
     cursor |-> state]

\* get_score: game.current_state = state, then is_winner reads the cursor
GetScore(state, player, cur) ==
    LET repointed == state
    IN  [score  |-> IF IsWinner(repointed, player) THEN WIN ELSE LOSE,
         cursor |-> repointed]

RECURSIVE RecursiveMinimaxScores(_, _, _)
RECURSIVE CursorBefore(_, _, _, _, _)

\* the cursor when the list comprehension over the moves ms of state comes
\* to move i: cur at the first, and then as the call for move i - 1 left it
CursorBefore(state, ms, i, player, cur) ==
    IF i = 1 THEN cur
    ELSE RecursiveMinimaxScores(MakeMove(state, ms[i - 1]), player,
                                CursorBefore(state, ms, i - 1, player, cur)).cursor

\* the list comprehension over the moves ms of state, left to right: the
\* scores, and the cursor after the last call
ChildScores(state, ms, player, cur) ==
    [scores |-> [i \in 1..Len(ms) |->
                    RecursiveMinimaxScores(MakeMove(state, ms[i]), player,
                        CursorBefore(state, ms, i, player, cur)).score],
     cursor |-> CursorBefore(state, ms, Len(ms) + 1, player, cur)]

\* recursive_minimax_scores(game, state, player), the cursor being cur
RecursiveMinimaxScores(state, player, cur) ==
    IF IsOver(state)
    THEN GetScore(state, player, cur)
    ELSE LET r == ChildScores(state, GetPossibleMoves(state), player, cur)
         IN  [score  |-> IF GetCurrentPlayerName(state) = player
                         THEN MaxOf(r.scores) ELSE MinOf(r.scores),
              cursor |-> r.cursor]

\* the score alone
Score(state, player) == RecursiveMinimaxScores(state, player, state).score

RECURSIVE FindBestLast(_, _, _, _, _)
FindBestLast(ms, scores, i, best_move, top_score) ==
    IF i > Len(ms) THEN best_move
    ELSE IF scores[i] >= top_score
         THEN FindBestLast(ms, scores, i + 1, <<ms[i]>>, scores[i])
         ELSE FindBestLast(ms, scores, i + 1, best_move, top_score)

\* the "find best move" loop of recursive_minimax, from pair i on
RECURSIVE FindBest(_, _, _, _, _)
FindBest(ms, scores, i, best_move, top_score) ==
    IF i > Len(ms) THEN best_move
    ELSE IF scores[i] > top_score
         THEN FindBest(ms, scores, i + 1, <<ms[i]>>, scores[i])
         ELSE FindBest(ms, scores, i + 1, best_move, top_score)

\* recursive_minimax(game): what it returns and where it leaves the cursor
RecursiveMinimaxCall(cur) ==
    LET state == cur
        ms == GetPossibleMoves(state)
        r  == ChildScores(state, ms, GetCurrentPlayerName(state), cur)
    IN  [best_move |-> FindBest(ms, r.scores, 1, <<>>, -2), cursor |-> r.cursor]

---------------------------------------------------------------------------
(* strategy.py: the iterative engine *)

\* GameTreeNode(game, state, player)
GameTreeNode(state, player) == [state |-> state, player |-> player]

\* children two plies down: the move made twice over
ChildrenTwoPlies(node) ==
    [i \in 1..Len(GetPossibleMoves(node.state)) |->
        GameTreeNode(MakeMove(MakeMove(node.state, GetPossibleMoves(node.state)[i]),
                              GetPossibleMoves(node.state)[i]),
                     node.player)]

\* GameTreeNode.children
Children(node) ==
    LET ms == GetPossibleMoves(node.state)
    IN  [i \in 1..Len(ms) |-> GameTreeNode(MakeMove(node.state, ms[i]), node.player)]

\* an assignment that leaves the new entry alone in the table
PutAlone(table, key, score) == [k \in {key} |-> score]

\* evaluated_state[key] = score
Put(table, key, score) ==
    [k \in DOMAIN table \cup {key} |-> IF k = key THEN score ELSE table[k]]

\* list.sort() of a list of scores
SortScores(scores) == SortSeq(scores, LAMBDA a, b : a < b)

\* the for loop of GameTreeNode.get_score from child i on: <<>> is None
RECURSIVE CollectScores(_, _, _, _)
CollectScores(children, table, i, scores) ==
    IF i > Len(children) THEN <<scores>>
    ELSE IF StateStr(children[i].state) \notin DOMAIN table
         THEN <<>>
         ELSE CollectScores(children, table, i + 1,
                            Append(scores, table[StateStr(children[i].state)]))

NodeGetScoreAlwaysMax(node, table) ==
    LET collected == CollectScores(Children(node), table, 1, <<>>)
    IN  IF collected = <<>> THEN <<>>
        ELSE LET scores == SortScores(collected[1])
             IN  <<scores[Len(scores)]>>

\* GameTreeNode.get_score(evaluated_state): <<>> is None, <<score>> a score
NodeGetScore(node, table) ==
    LET collected == CollectScores(Children(node), table, 1, <<>>)
    IN  IF collected = <<>> THEN <<>>
        ELSE LET scores == SortScores(collected[1])
             IN  IF GetCurrentPlayerName(node.state) = node.player
                 THEN <<scores[Len(scores)]>>
                 ELSE <<scores[1]>>

\* _evaluate_and_add putting a node that has no score yet at the bottom of
\* the stack
EvaluateAndAddBelow(node, stk, table, cur) ==
    IF IsOver(node.state)
    THEN [stack |-> stk,
          evaluated_state |-> Put(table, StateStr(node.state),
                                  GetScore(node.state, node.player, cur).score),
          cursor |-> GetScore(node.state, node.player, cur).cursor]
    ELSE IF NodeGetScore(node, table) # <<>>
         THEN [stack |-> stk,
               evaluated_state |-> Put(table, StateStr(node.state), NodeGetScore(node, table)[1]),
               cursor |-> cur]
         ELSE [stack |-> <<node>> \o stk,
               evaluated_state |-> table,
               cursor |-> cur]

\* _evaluate_and_add(node, stack, evaluated_state), the cursor being cur:
\* the stack, the table and the cursor it leaves
EvaluateAndAdd(node, stk, table, cur) ==
    IF IsOver(node.state)
    THEN LET g == GetScore(node.state, node.player, cur)
         IN  [stack |-> stk,
              evaluated_state |-> Put(table, StateStr(node.state), g.score),
              cursor |-> g.cursor]
    ELSE LET score == NodeGetScore(node, table)
         IN  IF score # <<>>
             THEN [stack |-> stk,
                   evaluated_state |-> Put(table, StateStr(node.state), score[1]),
                   cursor |-> cur]
             ELSE [stack |-> Append(stk, node),
                   evaluated_state |-> table,
                   cursor |-> cur]

\* for n in not_evaluated: _evaluate_and_add(n, stack, evaluated_state)
RECURSIVE EvaluateAll(_, _, _)
EvaluateAll(nodes, i, acc) ==
    IF i > Len(nodes) THEN acc
    ELSE EvaluateAll(nodes, i + 1,
            EvaluateAndAdd(nodes[i], acc.stack, acc.evaluated_state, acc.cursor))

\* one pass of the while body of iterative_minimax_strategy
LoopBody(stk, table, cur) ==
    LET node  == stk[Len(stk)]
        first == EvaluateAndAdd(node, SubSeq(stk, 1, Len(stk) - 1), table, cur)
        not_evaluated ==
            SelectSeq(Children(node),
                      LAMBDA n : StateStr(n.state) \notin DOMAIN first.evaluated_state)
    IN  EvaluateAll(not_evaluated, 1, first)

\* the pass pushes the node it pops back: it is not over and a child of it
\* has no score yet
PushedBack(stk, table) ==
    /\ ~IsOver(stk[Len(stk)].state)
    /\ NodeGetScore(stk[Len(stk)], table) = <<>>

\* the place insertion gives item in a list sorted by key: after every
\* item whose key is not greater (list.sort is stable)
RECURSIVE InsertByKey(_, _, _)
InsertByKey(sorted, item, table) ==
    IF sorted = <<>> THEN <<item>>
    ELSE IF table[StateStr(item[2].state)] < table[StateStr(Head(sorted)[2].state)]
         THEN <<item>> \o sorted
         ELSE <<Head(sorted)>> \o InsertByKey(Tail(sorted), item, table)

\* moves.sort(key=lambda item: evaluated_state[str(item[1].state)])
RECURSIVE SortMoves(_, _)
SortMoves(ms, table) ==
    IF ms = <<>> THEN <<>>
    ELSE InsertByKey(SortMoves(SubSeq(ms, 1, Len(ms) - 1), table), ms[Len(ms)], table)

\* the last two lines of iterative_minimax_strategy: moves[-1][0] after the sort
SelectMove(ms, table) ==
    LET sorted == SortMoves(ms, table)
    IN  sorted[Len(sorted)][1]

\* moves = [(move, GameTreeNode(game, state.make_move(move), player)) ...]
RootMoves(state) ==
    LET ms == GetPossibleMoves(state)
    IN  [i \in 1..Len(ms) |->
            <<ms[i], GameTreeNode(MakeMove(state, ms[i]), GetCurrentPlayerName(state))>>]

---------------------------------------------------------------------------
(* The search called on a game: one action per call or loop pass *)

NoSearch ==
    /\ root = current_state
    /\ engine = "none"
    /\ pc = "idle"
    /\ result = <<>>
    /\ moves = <<>>
    /\ stack = <<>>
    /\ stack_length = 0
    /\ evaluated_state = <<>>
    /\ repushed = {}
    /\ spun = FALSE

NoObjects ==
    /\ call = <<>>
    /\ heap = <<>>
    /\ objs = <<>>

\* SubtractSquareGame(is_p1_turn), the number typed in being 0..MaxStart
Init ==
    /\ \E is_p1_turn \in BOOLEAN, number \in 0..MaxStart :
          current_state =
              SubtractSquareGameState(IF is_p1_turn THEN "p1" ELSE "p2", number)
    /\ NoSearch
    /\ NoObjects

\* recursive_minimax(game)
RecursiveMinimax ==
    /\ pc = "idle"
    /\ LET r == RecursiveMinimaxCall(current_state)
       IN  /\ result' = r.best_move
           /\ current_state' = r.cursor
    /\ engine' = "recursive"
    /\ root' = current_state
    /\ pc' = "returned"
    /\ UNCHANGED <<moves, stack, stack_length, evaluated_state, repushed, spun,
                   call, heap, objs>>

\* iterative_minimax_strategy(game), up to the while
IterativeStart ==
    /\ pc = "idle"
    /\ engine' = "iterative"
    /\ root' = current_state
    /\ moves' = RootMoves(current_state)
    /\ stack' = [i \in 1..Len(RootMoves(current_state)) |-> RootMoves(current_state)[i][2]]
    /\ evaluated_state' = <<>>
    /\ stack_length' = Len(RootMoves(current_state))
    /\ pc' = "while"
    /\ UNCHANGED <<current_state, result, repushed, spun, call, heap, objs>>

\* the while test and one pass of its body; stack.pop() of an empty list
\* raises IndexError
IterativeLoop ==
    /\ pc = "while"
    /\ IF stack_length > 0
       THEN IF stack = <<>>
            THEN /\ pc' = "IndexError"
                 /\ UNCHANGED <<current_state, stack, evaluated_state, repushed, spun>>
            ELSE LET r   == LoopBody(stack, evaluated_state, current_state)
                     key == StateStr(stack[Len(stack)].state)
                 IN  /\ stack' = r.stack
                     /\ evaluated_state' = r.evaluated_state
                     /\ current_state' = r.cursor
                     /\ spun' = (spun \/ (PushedBack(stack, evaluated_state)
                                            /\ key \in repushed))
                     /\ repushed' =
                            IF DOMAIN r.evaluated_state # DOMAIN evaluated_state
                            THEN {}
                            ELSE IF PushedBack(stack, evaluated_state)
                                 THEN repushed \cup {key} ELSE repushed
                     /\ pc' = "while"
       ELSE /\ pc' = "select"
            /\ UNCHANGED <<current_state, stack, evaluated_state, repushed, spun>>
    /\ UNCHANGED <<root, engine, result, moves, stack_length, call, heap, objs>>

\* the sort and the return; moves[-1] of an empty list raises IndexError
IterativeSelect ==
    /\ pc = "select"
    /\ IF moves = <<>>
       THEN /\ pc' = "IndexError"
            /\ result' = result
       ELSE /\ pc' = "returned"
            /\ result' = <<SelectMove(moves, evaluated_state)>>
    /\ UNCHANGED <<current_state, root, engine, moves, stack, stack_length,
                   evaluated_state, repushed, spun, call, heap, objs>>

Next ==
    \/ RecursiveMinimax
    \/ IterativeStart
    \/ IterativeLoop
    \/ IterativeSelect

Spec == Init /\ [][Next]_vars

---------------------------------------------------------------------------
(* The recursive engine on the subtraction game up to the value 20 *)

\* the largest number typed in for the recursive engine
MaxValue == 20

\* SubtractSquareGame(is_p1_turn), the number typed in being 0..MaxValue
InitTable ==
    /\ \E is_p1_turn \in BOOLEAN, number \in 0..MaxValue :
          current_state =
              SubtractSquareGameState(IF is_p1_turn THEN "p1" ELSE "p2", number)
    /\ NoSearch
    /\ NoObjects

\* recursive_minimax_scores(game, game.current_state, player), player being
\* the one to move
RecursiveScores ==
    /\ pc = "idle"
    /\ LET r == RecursiveMinimaxScores(current_state,
                    GetCurrentPlayerName(current_state), current_state)
       IN  /\ result' = <<r.score>>
           /\ current_state' = r.cursor
    /\ engine' = "scores"
    /\ root' = current_state
    /\ pc' = "returned"
    /\ UNCHANGED <<moves, stack, stack_length, evaluated_state, repushed, spun,
                   call, heap, objs>>

NextTable ==
    \/ RecursiveMinimax
    \/ RecursiveScores

SpecTable == InitTable /\ [][NextTable]_vars

---------------------------------------------------------------------------
(* The search called in the course of a finger-transfer game *)

\* ChopsticksGame(is_p1_turn)
InitChop ==
    /\ \E is_p1_turn \in BOOLEAN :
          current_state = ChopStart(IF is_p1_turn THEN PLAYERS[1] ELSE PLAYERS[2])
    /\ NoSearch
    /\ NoObjects

\* the game goes on by a legal move of the player to move
ChopPlay ==
    /\ pc = "idle"
    /\ \E i \in 1..Len(ChopGetPossibleMoves(current_state)) :
          current_state' = ChopMakeMove(current_state, ChopGetPossibleMoves(current_state)[i])
    /\ root' = current_state'
    /\ UNCHANGED <<engine, pc, result, moves, stack, stack_length, evaluated_state,
                   repushed, spun, call, heap, objs>>

\* the search is followed while its stack is no longer than MaxStack
NextChop ==
    \/ ChopPlay
    \/ IterativeStart
    \/ (Len(stack) <= MaxStack /\ IterativeLoop)
    \/ IterativeSelect

SpecChop == InitChop /\ [][NextChop]_vars

---------------------------------------------------------------------------
(* The three games played, and make_move called with any move *)

\* the largest side length a Stonehenge board is created with
MaxSide == 1

\* the cells of a board
HengeCellCount(s) ==
    Len(SelectSeq(Flatten(s.nodes), LAMBDA cell : cell # NOT_USED))

\* GameState.is_valid_move: move and move in self.get_possible_moves();
\* of the moves of MoveInputs only the number 0 is false
IsValidMove(s, move) ==
    /\ IsSubtractSquare(s) => move # 0
    /\ \E i \in 1..Len(GetPossibleMoves(s)) : GetPossibleMoves(s)[i] = move

\* a make_move call: the state it returns and the error it raises; none of
\* the three make_move methods looks at get_possible_moves or raises
MakeMoveCall(s, move) ==
    [on |-> s, move |-> move, returned |-> <<MakeMove(s, move)>>, raised |-> "none"]

\* the moves make_move is called with: a number, a pair of hands, a cell
MoveInputs(s) ==
    IF IsSubtractSquare(s) THEN 0..(MaxStart + 1)
    ELSE IF IsChopsticks(s)
         THEN {<<ALL_HANDS[i], ALL_HANDS[j]>> : i, j \in 1..Len(ALL_HANDS)}
         ELSE {ASCII_UPPERCASE[i] : i \in 1..HengeCellCount(s)}

InitPlay ==
    /\ \E is_p1_turn \in BOOLEAN :
          \/ \E number \in 0..MaxStart :
                current_state =
                    SubtractSquareGameState(IF is_p1_turn THEN "p1" ELSE "p2", number)
          \/ current_state = ChopStart(IF is_p1_turn THEN PLAYERS[1] ELSE PLAYERS[2])
          \/ \E side_length \in 1..MaxSide :
                current_state = CreateStartHengeState(is_p1_turn, side_length)
    /\ NoSearch
    /\ NoObjects

\* the game goes on by a legal move: the cursor becomes what make_move returns
Play ==
    /\ \E i \in 1..Len(GetPossibleMoves(current_state)) :
          /\ call' = MakeMoveCall(current_state, GetPossibleMoves(current_state)[i])
          /\ current_state' = call'.returned[1]
    /\ root' = current_state'
    /\ UNCHANGED <<engine, pc, result, moves, stack, stack_length, evaluated_state,
                   repushed, spun, heap, objs>>

\* make_move called on the cursor with a move that is not legal
CallMakeMove ==
    /\ \E move \in MoveInputs(current_state) :
          /\ ~IsValidMove(current_state, move)
          /\ call' = MakeMoveCall(current_state, move)
    /\ UNCHANGED <<current_state, searchVars, heapVars>>

NextPlay ==
    \/ Play
    \/ CallMakeMove

SpecPlay == InitPlay /\ [][NextPlay]_vars

---------------------------------------------------------------------------
(* rough_outcome_strategy called in the course of a Stonehenge game *)

\* the board of the doctests of stonehenge.py
DocNodes == << <<"x", "A", "B">>, <<"C", "D", "E">>, <<"F", "G", "x">> >>

\* the "get the move" loop of rough_outcome_strategy, from move i on
RECURSIVE RoughBestLast(_, _, _, _, _)
RoughBestLast(state, ms, i, best_move, best_outcome) ==
    IF i > Len(ms) THEN best_move
    ELSE LET guessed_score == HengeRoughOutcome(HengeMakeMove(state, ms[i])) * (-1)
         IN  IF guessed_score >= best_outcome
             THEN RoughBestLast(state, ms, i + 1, <<ms[i]>>, guessed_score)
             ELSE RoughBestLast(state, ms, i + 1, best_move, best_outcome)

RECURSIVE RoughBest(_, _, _, _, _)
RoughBest(state, ms, i, best_move, best_outcome) ==
    IF i > Len(ms) THEN best_move
    ELSE LET guessed_score == HengeRoughOutcome(HengeMakeMove(state, ms[i])) * (-1)
         IN  IF guessed_score > best_outcome
             THEN RoughBest(state, ms, i + 1, <<ms[i]>>, guessed_score)
             ELSE RoughBest(state, ms, i + 1, best_move, best_outcome)

\* rough_outcome_strategy(game): <<>> is None
RoughOutcomeStrategyCall(cur) ==
    RoughBest(cur, HengeGetPossibleMoves(cur), 1, <<>>, -2)

\* a Stonehenge game starts: a board of side 1..MaxSide, or the doctest board
InitRough ==
    /\ \E is_p1_turn \in BOOLEAN :
          \/ \E side_length \in 1..MaxSide :
                current_state = CreateStartHengeState(is_p1_turn, side_length)
          \/ current_state =
                StoneHengeState(is_p1_turn, DocNodes,
                                <<"@", "@", "@">>, <<"@", "@", "@">>, <<"@", "@", "@">>)
    /\ NoSearch
    /\ NoObjects

\* the game goes on by a legal move
HengePlay ==
    /\ pc = "idle"
    /\ \E i \in 1..Len(HengeGetPossibleMoves(current_state)) :
          current_state' = HengeMakeMove(current_state, HengeGetPossibleMoves(current_state)[i])
    /\ root' = current_state'
    /\ UNCHANGED <<engine, pc, result, moves, stack, stack_length, evaluated_state,
                   repushed, spun, call, heap, objs>>

\* rough_outcome_strategy(game): nothing assigns game.current_state
RoughOutcomeStrategy ==
    /\ pc = "idle"
    /\ result' = RoughOutcomeStrategyCall(current_state)
    /\ engine' = "rough_outcome"
    /\ pc' = "returned"
    /\ UNCHANGED <<current_state, root, moves, stack, stack_length, evaluated_state,
                   repushed, spun, call, heap, objs>>

NextRough ==
    \/ HengePlay
    \/ RoughOutcomeStrategy

SpecRough == InitRough /\ [][NextRough]_vars

---------------------------------------------------------------------------
(* One play of a game followed from its start: root stays the start *)

\* the play goes on by a legal move while the game is not over; root is
\* left where the play began
PlayOn ==
    /\ (IsSubtractSquare(current_state) \/ IsChopsticks(current_state))
          => ~IsOver(current_state)
    /\ \E i \in 1..Len(GetPossibleMoves(current_state)) :
          /\ call' = MakeMoveCall(current_state, GetPossibleMoves(current_state)[i])
          /\ current_state' = call'.returned[1]
    /\ UNCHANGED <<searchVars, heapVars>>

NextRound == PlayOn

SpecRound == InitPlay /\ [][NextRound]_vars

---------------------------------------------------------------------------
(* Two states of one game, for what str() tells apart: current_state is    *)
(* played on from a start, root is a start or one move from a start.       *)

\* no search is going on (root apart)
SearchIdle ==
    /\ engine = "none"
    /\ pc = "idle"
    /\ result = <<>>
    /\ moves = <<>>
    /\ stack = <<>>
    /\ stack_length = 0
    /\ evaluated_state = <<>>
    /\ repushed = {}
    /\ spun = FALSE

\* s is a state a game is created with
IsStartState(s) ==
    IF IsSubtractSquare(s) THEN s.number \in 0..MaxStart
    ELSE IF IsChopsticks(s) THEN s = ChopStart(s.player)
    ELSE s = CreateStartHengeState(s.p1_turn, Len(s.nodes) - 1)

InitKeys ==
    /\ \E is_p1_turn \in BOOLEAN, other_is_p1_turn \in BOOLEAN :
          \/ \E number \in 0..MaxStart, other_number \in 0..MaxStart :
                /\ current_state =
                      SubtractSquareGameState(IF is_p1_turn THEN "p1" ELSE "p2", number)
                /\ root =
                      SubtractSquareGameState(IF other_is_p1_turn THEN "p1" ELSE "p2",
                                              other_number)
          \/ /\ current_state = ChopStart(IF is_p1_turn THEN PLAYERS[1] ELSE PLAYERS[2])
             /\ root = ChopStart(IF other_is_p1_turn THEN PLAYERS[1] ELSE PLAYERS[2])
          \/ \E side_length \in 1..MaxSide, other_side_length \in 1..MaxSide :
                /\ current_state = CreateStartHengeState(is_p1_turn, side_length)
                /\ root = CreateStartHengeState(other_is_p1_turn, other_side_length)
    /\ SearchIdle
    /\ NoObjects

\* the first state is played on by a legal move
KeysPlay ==
    /\ \E i \in 1..Len(GetPossibleMoves(current_state)) :
          current_state' = MakeMove(current_state, GetPossibleMoves(current_state)[i])
    /\ UNCHANGED <<searchVars, call, heapVars>>

\* the second state, a start state, is played on by a legal move
KeysPlayOther ==
    /\ IsStartState(root)
    /\ \E i \in 1..Len(GetPossibleMoves(root)) :
          root' = MakeMove(root, GetPossibleMoves(root)[i])
    /\ UNCHANGED <<current_state, engine, pc, result, moves, stack, stack_length,
                   evaluated_state, repushed, spun, call, heapVars>>

NextKeys ==
    \/ KeysPlay
    \/ KeysPlayOther

SpecKeys == InitKeys /\ [][NextKeys]_vars

---------------------------------------------------------------------------
(* The state objects by reference.  A dict or a list is an entry of heap   *)
(* and is referred to by its place in heap; an assignment to an item of it *)
(* changes that entry, for every object that refers to it.                 *)

\* the most state objects created
MaxObjs == 3

\* the largest side length of a Stonehenge board created by reference
MaxHeapSide == 2

\* ChopsticksGame.__init__: the dict hands, and one dict per player
HeapChopStart(h, player) ==
    LET a == Len(h) + 1
    IN  [heap |-> h \o << [p1 |-> a + 1, p2 |-> a + 2],
                          [l |-> 1, r |-> 1],
                          [l |-> 1, r |-> 1] >>,
         obj  |-> [player |-> player, hands |-> a]]

HeapGetHandsCopyShallow(h, s) ==
    LET a == Len(h) + 1
    IN  [heap |-> Append(h, [p1 |-> h[s.hands]["p1"], p2 |-> h[s.hands]["p2"]]), ref |-> a]

\* ChopsticksGameState.get_hands_copy: a new dict, and dict(self.hands[player])
\* for each player
HeapGetHandsCopy(h, s) ==
    LET a == Len(h) + 1
    IN  [heap |-> h \o << [p1 |-> a + 1, p2 |-> a + 2],
                          h[h[s.hands]["p1"]],
                          h[h[s.hands]["p2"]] >>,
         ref  |-> a]

\* ChopsticksGameState.make_move
HeapChopMakeMove(h, s, move_to_make) ==
    LET player == s.player
        enemy  == GetNextPlayer(s.player)
        copied == HeapGetHandsCopy(h, s)
        new_hands == copied.ref
        to   == copied.heap[new_hands][enemy]
        from == copied.heap[new_hands][player]
    IN  [heap |-> [copied.heap EXCEPT ![to][move_to_make[2]] =
                      (copied.heap[to][move_to_make[2]]
                          + copied.heap[from][move_to_make[1]]) % 5],
         obj  |-> [player |-> enemy, hands |-> new_hands]]

\* create_start_henge_state: a list per row, the list of the rows, and a
\* list for each of the three [NOT_CLAIMED] * size
HeapCreateStartHengeState(h, is_p1_turn, side_length) ==
    LET start == CreateStartHengeState(is_p1_turn, side_length)
        size  == side_length + 1
        a     == Len(h)
    IN  [heap |-> h \o start.nodes
                    \o << [i \in 1..size |-> a + i] >>
                    \o << start.row_line_claimers, start.left_line_claimers,
                          start.right_line_claimers >>,
         obj  |-> StoneHengeState(is_p1_turn, a + size + 1,
                                  a + size + 2, a + size + 3, a + size + 4)]

\* the value of the list of lists at ref
NodesAt(h, ref) == [i \in 1..Len(h[ref]) |-> h[h[ref][i]]]

\* copy_nodes: [list(line) for line in nodes]
HeapCopyNodes(h, ref) ==
    LET a == Len(h)
        n == Len(h[ref])
    IN  [heap |-> h \o NodesAt(h, ref) \o << [i \in 1..n |-> a + i] >>,
         ref  |-> a + n + 1]

\* the "update nodes" loops of make_move: updated_nodes[i][j] = ... where
\* the cell is move
HeapUpdateNodes(h, ref, move, mark) ==
    [a \in 1..Len(h) |->
        IF \E i \in 1..Len(h[ref]) : h[ref][i] = a
        THEN [j \in 1..Len(h[a]) |-> IF h[a][j] = move THEN mark ELSE h[a][j]]
        ELSE h[a]]

\* get_update_lines: updated = list(claim_marks), then updated[i] = ...
HeapGetUpdateLines(h, claim_ref, lines) ==
    LET copied == Append(h, h[claim_ref])
        updated == Len(h) + 1
    IN  [heap |-> [copied EXCEPT ![updated] = GetUpdateLines(copied[updated], lines)],
         ref  |-> updated]

\* StoneHengeState.make_move
HeapHengeMakeMove(h, s, move) ==
    LET copied == HeapCopyNodes(h, s.nodes)
        updated_nodes == copied.ref
        h1 == HeapUpdateNodes(copied.heap, updated_nodes, move,
                              IF s.p1_turn THEN P1_CLAIMED ELSE P2_CLAIMED)
        rows   == HeapGetUpdateLines(h1, s.row_line_claimers,
                                     GetRowLines(NodesAt(h1, updated_nodes)))
        lefts  == HeapGetUpdateLines(rows.heap, s.left_line_claimers,
                                     GetDownLeftLines(NodesAt(rows.heap, updated_nodes)))
        rights == HeapGetUpdateLines(lefts.heap, s.right_line_claimers,
                                     GetDownRightLines(NodesAt(lefts.heap, updated_nodes)))
    IN  [heap |-> rights.heap,
         obj  |-> StoneHengeState(~s.p1_turn, updated_nodes,
                                  rows.ref, lefts.ref, rights.ref)]

\* SubtractSquareGameState.make_move: the state holds two immutable values
HeapSubMakeMove(h, s, move_to_make) ==
    [heap |-> h, obj |-> SubMakeMove(s, move_to_make)]

\* make_move on the object s
HeapMakeMove(h, s, move) ==
    IF IsSubtractSquare(s) THEN HeapSubMakeMove(h, s, move)
    ELSE IF IsChopsticks(s) THEN HeapChopMakeMove(h, s, move)
    ELSE HeapHengeMakeMove(h, s, move)

\* what the object s holds: its fields, the dicts and lists read through
View(h, s) ==
    IF IsSubtractSquare(s) THEN s
    ELSE IF IsChopsticks(s)
         THEN ChopsticksGameState(s.player,
                  [p \in {"p1", "p2"} |-> h[h[s.hands][p]]])
         ELSE StoneHengeState(s.p1_turn, NodesAt(h, s.nodes),
                  h[s.row_line_claimers], h[s.left_line_claimers],
                  h[s.right_line_claimers])

\* a game is created: its first state object
InitHeap ==
    /\ \E is_p1_turn \in BOOLEAN :
          \/ \E number \in 0..MaxStart :
                /\ heap = <<>>
                /\ objs = << SubtractSquareGameState(
                                IF is_p1_turn THEN "p1" ELSE "p2", number) >>
          \/ LET c == HeapChopStart(<<>>, IF is_p1_turn THEN PLAYERS[1] ELSE PLAYERS[2])
             IN  heap = c.heap /\ objs = <<c.obj>>
          \/ \E side_length \in 1..MaxHeapSide :
                LET c == HeapCreateStartHengeState(<<>>, is_p1_turn, side_length)
                IN  heap = c.heap /\ objs = <<c.obj>>
    /\ current_state = View(heap, objs[1])
    /\ call = <<>>
    /\ NoSearch

\* make_move on any state object created so far, with a legal move of it
ObjectMakeMove ==
    /\ Len(objs) < MaxObjs
    /\ \E n \in 1..Len(objs) :
          \E i \in 1..Len(GetPossibleMoves(View(heap, objs[n]))) :
              LET move == GetPossibleMoves(View(heap, objs[n]))[i]
                  made == HeapMakeMove(heap, objs[n], move)
              IN  /\ heap' = made.heap
                  /\ objs' = Append(objs, made.obj)
                  /\ call' = MakeMoveCall(View(heap, objs[n]), move)
    /\ UNCHANGED <<current_state, searchVars>>

NextHeap == ObjectMakeMove

SpecHeap == InitHeap /\ [][NextHeap]_vars

---------------------------------------------------------------------------
(* What the claims speak of *)

\* the states legal moves lead to from s, s included
RECURSIVE ReachableFrom(_)
ReachableFrom(s) ==
    {s} \cup UNION {ReachableFrom(MakeMove(s, GetPossibleMoves(s)[i])) :
                        i \in 1..Len(GetPossibleMoves(s))}

\* the search has ended, one way or the other
Finished == engine # "none" /\ pc \in {"returned", "IndexError"}

\* the score of the i-th child of the root, seen by the root's player
RootChildScore(i) ==
    Score(MakeMove(root, GetPossibleMoves(root)[i]), GetCurrentPlayerName(root))

\* move i of the root has the greatest child score, and is the first that has
IsFirstBest(i) ==
    /\ \A j \in 1..Len(GetPossibleMoves(root)) : RootChildScore(j) <= RootChildScore(i)
    /\ \A j \in 1..(i - 1) : RootChildScore(j) < RootChildScore(i)

\* two moves of the root share the greatest child score
RootHasTie ==
    \E i, j \in 1..Len(GetPossibleMoves(root)) :
        /\ i < j
        /\ RootChildScore(i) = RootChildScore(j)
        /\ \A k \in 1..Len(GetPossibleMoves(root)) : RootChildScore(k) <= RootChildScore(i)

\* every child of the root has its score in the table
RootChildrenEvaluated ==
    \A i \in 1..Len(moves) : StateStr(moves[i][2].state) \in DOMAIN evaluated_state

(* C1: from a root with a legal move, iterative_minimax_strategy returns   *)
(* the move recursive_minimax returns from the same cursor.                *)
C1_IterativeReturnsRecursiveMove ==
    (Finished /\ engine = "iterative" /\ GetPossibleMoves(root) # <<>>)
        => (pc = "returned" /\ result = RecursiveMinimaxCall(root).best_move)

(* C2: every entry of the iterative engine's table is the identity of a    *)
(* state s reachable from the root, and its score is                       *)
(* recursive_minimax_scores(game, s, p) for the root's player p; for a     *)
(* terminal s it is +1 when p is the winner in s and -1 otherwise.         *)
C2_TableHoldsRecursiveScores ==
    engine = "iterative" =>
        \A key \in DOMAIN evaluated_state :
            \E s \in ReachableFrom(root) :
                /\ StateStr(s) = key
                /\ evaluated_state[key] = Score(s, GetCurrentPlayerName(root))
                /\ IsOver(s) =>
                      evaluated_state[key] =
                          IF IsWinner(s, GetCurrentPlayerName(root)) THEN 1 ELSE -1

\* the table holds a terminal and a non-terminal state, won and lost ones
C2_Witness ==
    /\ engine = "iterative"
    /\ \E s, u \in ReachableFrom(root) :
          /\ ~IsOver(s) /\ IsOver(u)
          /\ StateStr(s) \in DOMAIN evaluated_state
          /\ StateStr(u) \in DOMAIN evaluated_state
          /\ evaluated_state[StateStr(s)] = 1
    /\ \E key \in DOMAIN evaluated_state : evaluated_state[key] = -1

(* C3: recursive_minimax returns a legal move of the root whose child      *)
(* score, seen by the root's player, is the greatest of all legal moves,   *)
(* and the first enumerated of those that share it.                        *)
C3_RecursiveReturnsFirstBest ==
    (engine = "recursive" /\ pc = "returned" /\ GetPossibleMoves(root) # <<>>)
        => \E i \in 1..Len(GetPossibleMoves(root)) :
              /\ result = <<GetPossibleMoves(root)[i]>>
              /\ IsFirstBest(i)

\* recursive_minimax has returned from a root where two moves tie for the best
C3_Witness ==
    /\ engine = "recursive" /\ pc = "returned"
    /\ RootHasTie
    /\ \E i, j \in 1..Len(GetPossibleMoves(root)) :
          RootChildScore(i) # RootChildScore(j)

(* C4: the selection of the iterative engine returns, of the root's legal  *)
(* moves, the one whose child has the greatest score in the table, and the *)
(* first enumerated of those that share it.                                *)
C4_IterativeSelectsFirstBest ==
    (engine = "iterative" /\ moves # <<>> /\ RootChildrenEvaluated)
        => \E i \in 1..Len(moves) :
              /\ SelectMove(moves, evaluated_state) = moves[i][1]
              /\ IsFirstBest(i)

(* C5: called on a root with no legal move, both engines end in a          *)
(* NoMovesError; neither returns a value.                                  *)
C5_NoMovesIsAnError ==
    (Finished /\ GetPossibleMoves(root) = <<>>) => pc = "NoMovesError"

(* C7: a search leaves the Game's cursor alone: during it and after it     *)
(* game.current_state is the state it was when the search was called.      *)
C7_CursorUnchanged ==
    engine # "none" => current_state = root

(* C6: when the states reachable from the root contain a cycle, the        *)
(* iterative engine stops and reports a CycleError instead of popping and  *)
(* pushing back forever: once it has popped and pushed back the same node  *)
(* twice with nothing added to the table in between (it went round a       *)
(* cycle), the search has ended in CycleError.                             *)
C6_CycleIsReported ==
    spun => pc = "CycleError"

\* who is to act in s: the name the state holds, or the p1_turn flag the
\* Stonehenge state holds
ActingPlayer(s) ==
    IF IsSubtractSquare(s) \/ IsChopsticks(s) THEN GetCurrentPlayerName(s)
    ELSE s.p1_turn

(* C8: strict alternation: in every state a game reaches, for every move   *)
(* of get_possible_moves(), the player to act in the state make_move       *)
(* returns is the other player, never the same one.                        *)
C8_StrictAlternation ==
    \A i \in 1..Len(GetPossibleMoves(current_state)) :
        LET next == MakeMove(current_state, GetPossibleMoves(current_state)[i])
        IN  /\ ActingPlayer(next) # ActingPlayer(current_state)
            /\ ~IsSubtractSquare(current_state) /\ ~IsChopsticks(current_state)
                  => ActingPlayer(next) \in BOOLEAN
            /\ IsSubtractSquare(current_state) \/ IsChopsticks(current_state)
                  => ActingPlayer(next) \in {PLAYERS[1], PLAYERS[2]}

C8_Witness ==
    /\ call # <<>>
    /\ IsValidMove(call.on, call.move)
    /\ current_state = call.returned[1]
    /\ ActingPlayer(call.on) = "p2"
    /\ ActingPlayer(current_state) = "p1"
    /\ IsChopsticks(current_state)
    /\ Len(GetPossibleMoves(current_state)) >= 2

(* C10: make_move with a move that is not in get_possible_moves() of the   *)
(* state fails with InvalidMoveError and produces no successor state.      *)
C10_IllegalMoveRaises ==
    (call # <<>> /\ ~IsValidMove(call.on, call.move))
        => (call.raised = "InvalidMoveError" /\ call.returned = <<>>)

(* C9: make_move never changes the state it is applied to: every state     *)
(* object created so far keeps its acting player, its payload (number,     *)
(* hands, or cells and line claimers) and its list of legal moves across   *)
(* every later make_move, on it or on a state made from it.                *)
C9_MakeMoveLeavesStateAlone ==
    [][\A n \in 1..Len(objs) :
          /\ objs'[n] = objs[n]
          /\ View(heap', objs[n]) = View(heap, objs[n])
          /\ ActingPlayer(View(heap', objs[n])) = ActingPlayer(View(heap, objs[n]))
          /\ GetPossibleMoves(View(heap', objs[n]))
                = GetPossibleMoves(View(heap, objs[n]))]_vars

\* a state was made from the first and then moved on again, and the moves
\* changed what the made states hold
C9_Witness ==
    /\ Len(objs) = 3
    /\ ~IsSubtractSquare(objs[1])
    /\ View(heap, objs[3]) = call.returned[1]
    /\ call.on = View(heap, objs[2])
    /\ \E i \in 1..Len(GetPossibleMoves(View(heap, objs[1]))) :
          View(heap, objs[2])
              = MakeMove(View(heap, objs[1]), GetPossibleMoves(View(heap, objs[1]))[i])
    /\ View(heap, objs[1]) # View(heap, objs[2])
    /\ View(heap, objs[2]) # View(heap, objs[3])

(* C11: the memoization key str(state) is collision-free: two states of    *)
(* one game have the same key exactly when they have the same acting       *)
(* player and the same payload.                                            *)
C11_KeysCollisionFree ==
    (StateStr(current_state) = StateStr(root)) <=> (current_state = root)

\* n is a losing value of the subtraction game: every square that can be
\* subtracted leaves a value that is not losing
RECURSIVE IsLosingValue(_)
IsLosingValue(n) ==
    \A i \in 1..n : i * i <= n => ~IsLosingValue(n - i * i)

\* the losing values up to 20
LosingTable == {0, 2, 5, 7, 10, 12, 15, 17, 20}

\* recursive_minimax has returned from the root with value 20, p1 to move
TwentySearched ==
    /\ engine = "recursive"
    /\ pc = "returned"
    /\ root = SubtractSquareGameState("p1", 20)

(* C12 as stated: at value 20 with p1 to move the legal moves are exactly  *)
(* 1, 4, 9, 16 and the move recursive_minimax selects leaves the opponent  *)
(* on a losing value.                                                      *)
C12_SelectedMoveLeavesLosingValue ==
    TwentySearched =>
        /\ GetPossibleMoves(root) = <<1, 4, 9, 16>>
        /\ result # <<>>
        /\ IsLosingValue(root.number - result[1])

(* C12 amended: at value 20 with p1 to move the legal moves are exactly    *)
(* 1, 4, 9, 16; 20 is itself a losing value, so every move leaves the      *)
(* opponent on a value that is not losing, and recursive_minimax returns   *)
(* the first move, 1.  From any value, the move recursive_minimax selects  *)
(* leaves the opponent on a losing value whenever some legal move does.    *)
C12_SelectedMoveLeavesLosingValueIfAny ==
    /\ TwentySearched =>
          /\ GetPossibleMoves(root) = <<1, 4, 9, 16>>
          /\ IsLosingValue(root.number)
          /\ \A i \in 1..Len(GetPossibleMoves(root)) :
                ~IsLosingValue(root.number - GetPossibleMoves(root)[i])
          /\ result = <<1>>
    /\ (engine = "recursive" /\ pc = "returned" /\ GetPossibleMoves(root) # <<>>) =>
          /\ result # <<>>
          /\ \E i \in 1..Len(GetPossibleMoves(root)) : result[1] = GetPossibleMoves(root)[i]
          /\ (\E i \in 1..Len(GetPossibleMoves(root)) :
                 IsLosingValue(root.number - GetPossibleMoves(root)[i]))
                => IsLosingValue(root.number - result[1])

C12_Witness ==
    /\ TwentySearched
    /\ result = <<1>>
    /\ current_state.number = 0

(* C13: for every value n and either player p, recursive_minimax_scores on *)
(* the state (p to move, value n) seen by p is -1 exactly when n is a      *)
(* losing value (0, 2, 5, 7, 10, 12, 15, 17, 20 up to 20) and +1 otherwise.*)
C13_ScoresMatchLosingTable ==
    (engine = "scores" /\ pc = "returned") =>
        /\ result \in {<<1>>, <<-1>>}
        /\ result = <<-1>> <=> IsLosingValue(root.number)
        /\ root.number <= 20 => (IsLosingValue(root.number) <=> root.number \in LosingTable)

C13_Witness ==
    /\ engine = "scores"
    /\ pc = "returned"
    /\ root = SubtractSquareGameState("p2", 20)
    /\ result = <<-1>>

\* the player who is not player
Opponent(player) == IF player = "p1" THEN "p2" ELSE "p1"

\* the hand that is not hand
OtherHand(hand) == IF hand = "l" THEN "r" ELSE "l"

\* next is s after the mover's hand x touched the opponent's hand y
TouchedBy(s, x, y, next) ==
    /\ next.player = Opponent(s.player)
    /\ next.hands[Opponent(s.player)][y]
          = (s.hands[Opponent(s.player)][y] + s.hands[s.player][x]) % 5
    /\ next.hands[Opponent(s.player)][OtherHand(y)]
          = s.hands[Opponent(s.player)][OtherHand(y)]
    /\ next.hands[s.player] = s.hands[s.player]

(* C14: in the finger-transfer game, for every state and every legal move  *)
(* 'xy', make_move yields a state in which the opponent's hand y is        *)
(* (opponent's hand y + mover's hand x) mod 5, the other three hands are   *)
(* unchanged and the opponent is to act; from the start 1,1 / 1,1 move     *)
(* 'll' gives the opponent's left hand the value 2.                        *)
C14_MoveAddsModuloFive ==
    IsChopsticks(current_state) =>
        /\ \A i \in 1..Len(GetPossibleMoves(current_state)) :
              LET move == GetPossibleMoves(current_state)[i]
              IN  TouchedBy(current_state, move[1], move[2],
                            MakeMove(current_state, move))
        /\ (call # <<>> /\ IsValidMove(call.on, call.move)) =>
              TouchedBy(call.on, call.move[1], call.move[2], call.returned[1])
        /\ current_state = ChopStart(current_state.player) =>
              /\ GetPossibleMoves(current_state)[1] = <<"l", "l">>
              /\ MakeMove(current_state, <<"l", "l">>)
                    .hands[Opponent(current_state.player)]["l"] = 2

\* a legal move was made whose sum went past five
C14_Witness ==
    /\ IsChopsticks(current_state)
    /\ call # <<>>
    /\ IsValidMove(call.on, call.move)
    /\ current_state = call.returned[1]
    /\ call.on.hands[current_state.player][call.move[2]]
          + call.on.hands[call.on.player][call.move[1]] > 5
    /\ current_state.hands[current_state.player][call.move[2]] \in 1..3

\* the moves a play can still hold at most: the number left to subtract
\* from, or the cells of the board nobody has claimed
PliesLeft(s) ==
    IF IsSubtractSquare(s) THEN s.number
    ELSE Len(SelectSeq(Flatten(s.nodes),
                       LAMBDA cell : cell \notin {NOT_USED, P1_CLAIMED, P2_CLAIMED}))

(* C15 as stated: no play of a supported game from its start revisits an   *)
(* earlier state (so every play ends after a bounded number of plies),     *)
(* the finger-transfer game from 1,1 / 1,1 included: once a move has been  *)
(* made, the play is never again in the state it began in.                 *)
C15_PlayNeverRevisits ==
    call # <<>> => current_state # root

(* C15 amended: every play of the number-subtraction game and of           *)
(* Stonehenge ends after a bounded number of plies and never revisits a    *)
(* state: each legal move strictly lowers a count that is never negative   *)
(* (the number; the unclaimed cells).  The finger-transfer game has no     *)
(* such bound: a play from 1,1 / 1,1 can come back to 1,1 / 1,1.           *)
C15_PlayEndsExceptFingerTransfer ==
    [][~IsChopsticks(current_state) =>
          /\ PliesLeft(current_state') < PliesLeft(current_state)
          /\ PliesLeft(current_state') >= 0
          /\ current_state' # root]_vars

\* a play of more than one ply has come to a state with no legal move
C15_Witness ==
    /\ ~IsChopsticks(current_state)
    /\ call # <<>>
    /\ call.on # root
    /\ GetPossibleMoves(current_state) = <<>>
    /\ PliesLeft(current_state) < PliesLeft(root)

\* some legal move of s leads directly to a state won by the mover
HasWinningMove(s) ==
    \E i \in 1..Len(HengeGetPossibleMoves(s)) :
        HengeGetWinner(HengeMakeMove(s, HengeGetPossibleMoves(s)[i]))
            = <<HengeGetCurrentPlayerName(s)>>

(* C16: for every Stonehenge state that is not over and in which some      *)
(* legal move leads directly to a state won by the mover, rough_outcome()  *)
(* returns +1.                                                             *)
C16_WinningMoveGivesOne ==
    (HengeGetWinner(current_state) = <<>> /\ HasWinningMove(current_state))
        => HengeRoughOutcome(current_state) = 1

\* rough_outcome() of the state that the i-th legal move of s leads to
SuccessorRoughOutcome(s, i) ==
    HengeRoughOutcome(HengeMakeMove(s, HengeGetPossibleMoves(s)[i]))

\* rough_outcome_strategy has returned for a state that has legal moves
RoughReturned ==
    /\ engine = "rough_outcome"
    /\ pc = "returned"
    /\ HengeGetPossibleMoves(current_state) # <<>>

(* C17: rough_outcome_strategy returns a legal move of the game's current  *)
(* state whose successor has the lowest rough_outcome() among all the      *)
(* successors, the first-enumerated such move on ties, and it leaves       *)
(* game.current_state as it was (root is the state it was called on).      *)
C17_RoughStrategyPicksFirstLowest ==
    RoughReturned =>
        /\ current_state = root
        /\ \E i \in 1..Len(HengeGetPossibleMoves(current_state)) :
              /\ result = <<HengeGetPossibleMoves(current_state)[i]>>
              /\ \A j \in 1..Len(HengeGetPossibleMoves(current_state)) :
                    /\ SuccessorRoughOutcome(current_state, j)
                          >= SuccessorRoughOutcome(current_state, i)
                    /\ j < i => SuccessorRoughOutcome(current_state, j)
                                   > SuccessorRoughOutcome(current_state, i)

\* the strategy has returned a move that is not the first one, and a later
\* move has a successor of the same, lowest, rough_outcome()
C17_Witness ==
    /\ RoughReturned
    /\ result # <<HengeGetPossibleMoves(current_state)[1]>>
    /\ \E i, k \in 1..Len(HengeGetPossibleMoves(current_state)) :
          /\ result = <<HengeGetPossibleMoves(current_state)[i]>>
          /\ k > i
          /\ SuccessorRoughOutcome(current_state, k) = SuccessorRoughOutcome(current_state, i)

\* the positive perfect squares that are <= n
PositiveSquaresUpTo(n) == {k \in 1..n : \E r \in 1..n : r * r = k}

\* get_possible_moves() of s is the increasing list of the positive squares
\* up to its value
MovesArePositiveSquares(s) ==
    LET ms == SubGetPossibleMoves(s)
        n  == s.number
    IN  /\ {ms[i] : i \in 1..Len(ms)} = PositiveSquaresUpTo(n)
        /\ \A i \in 1..(Len(ms) - 1) : ms[i] < ms[i + 1]
        /\ n = 20 => ms = <<1, 4, 9, 16>>
        /\ n = 10 => ms = <<1, 4, 9>>
        /\ n = 0 => ms = <<>>

(* C18: for every number-subtraction state with value n >= 0,              *)
(* get_possible_moves() returns exactly the positive perfect squares that  *)
(* are <= n, in increasing order and so without duplicates: [1, 4, 9, 16]  *)
(* for 20, [1, 4, 9] for 10, the empty list for 0. Stated of the state a   *)
(* search starts from and of the state it leaves the game on.              *)
C18_MovesArePositiveSquares ==
    \A s \in {current_state, root} :
        (IsSubtractSquare(s) /\ s.number >= 0) => MovesArePositiveSquares(s)

\* a search has run from a value that is itself a square, the last of the
\* moves it enumerated, and has returned one of them
C18_Witness ==
    /\ pc = "returned"
    /\ engine = "recursive"
    /\ root.number = 16
    /\ SubGetPossibleMoves(root) = <<1, 4, 9, 16>>
    /\ \E i \in 1..4 : result = <<SubGetPossibleMoves(root)[i]>>

\* the keys of the states reachable from the children of the root
ReachableKeys ==
    UNION {{StateStr(s) : s \in ReachableFrom(moves[i][2].state)} : i \in 1..Len(moves)}

(* C19: on the number-subtraction game the main loop of the iterative      *)
(* engine ends as soon as the work stack is empty: from the loop with an   *)
(* empty stack the next step is the selection of a move, not a pop.        *)
C19_LoopEndsOnEmptyStack ==
    [][(pc = "while" /\ stack = <<>>) => pc' = "select"]_vars

\* at the loop with an empty stack every reachable state has its score in
\* the table
C19_TableCompleteOnEmptyStack ==
    (pc = "while" /\ stack = <<>>) => ReachableKeys \subseteq DOMAIN evaluated_state

\* the state a key of the table is the str() of (number-subtraction and
\* finger-transfer states: the key spells out every field)
KeyState(key) ==
    IF Len(key) = 5
    THEN SubtractSquareGameState(key[2], key[4])
    ELSE ChopsticksGameState(key[2],
            [p \in {"p1", "p2"} |->
                IF p = "p1" THEN [h \in {LEFT_HAND, RIGHT_HAND} |->
                                     IF h = LEFT_HAND THEN key[6] ELSE key[8]]
                ELSE [h \in {LEFT_HAND, RIGHT_HAND} |->
                                     IF h = LEFT_HAND THEN key[12] ELSE key[14]]])

\* every key of the table is the key of one state, and if that state is not
\* terminal the key of each of its children is in the table
ChildrenScoredFirst ==
    engine = "iterative" =>
        \A key \in DOMAIN evaluated_state :
            /\ StateStr(KeyState(key)) = key
            /\ ~IsOver(KeyState(key)) =>
                  \A i \in 1..Len(GetPossibleMoves(KeyState(key))) :
                      StateStr(MakeMove(KeyState(key), GetPossibleMoves(KeyState(key))[i]))
                          \in DOMAIN evaluated_state

\* the pass of the loop about to run pops a node and pushes it back
PushBackPass ==
    /\ pc = "while"
    /\ stack_length > 0
    /\ stack # <<>>
    /\ PushedBack(stack, evaluated_state)

\* a pass that pushes its node back leaves the node where it was, the stack
\* below it as it was, and above it exactly the children of the node that
\* still have no score
ChildrenPushedAbove ==
    PushBackPass =>
        LET n    == Len(stack)
            node == stack[n]
        IN  /\ Len(stack') >= n
            /\ SubSeq(stack', 1, n) = stack
            /\ \A j \in (n + 1)..Len(stack') :
                  /\ \E i \in 1..Len(Children(node)) : stack'[j] = Children(node)[i]
                  /\ StateStr(stack'[j].state) \notin DOMAIN evaluated_state'
            /\ \A i \in 1..Len(Children(node)) :
                  StateStr(Children(node)[i].state) \notin DOMAIN evaluated_state'
                      => \E j \in (n + 1)..Len(stack') : stack'[j] = Children(node)[i]

(* C20: post-order. At every point of an iterative search, if the key of   *)
(* a state that is not terminal is in the table then the key of each of    *)
(* its children is in the table; and a node with no score yet is pushed    *)
(* back before its children with no score are pushed, so they sit above it *)
(* on the stack and are popped before the node is popped again.            *)
C20_PostOrder ==
    /\ []ChildrenScoredFirst
    /\ [][ChildrenPushedAbove]_vars

\* a node pushed back lies under a child of it that has no score, and the
\* table holds the key of a state that is not terminal
C20_Witness ==
    /\ engine = "iterative"
    /\ pc = "while"
    /\ \E n \in 1..(Len(stack) - 1) :
          /\ ~IsOver(stack[n].state)
          /\ \E i \in 1..Len(Children(stack[n])) : stack[n + 1] = Children(stack[n])[i]
          /\ StateStr(stack[n + 1].state) \notin DOMAIN evaluated_state
    /\ \E key \in DOMAIN evaluated_state : ~IsOver(KeyState(key))

\* the key a call of _evaluate_and_add writes: the call either assigns
\* evaluated_state[str(node.state)] or appends the node to the stack
WrittenKey(node, stk, table, cur) ==
    IF EvaluateAndAdd(node, stk, table, cur).stack = stk
    THEN <<StateStr(node.state)>>
    ELSE <<>>

\* the keys written by the calls for nodes[i], nodes[i + 1], ..., in order
RECURSIVE WritesFrom(_, _, _)
WritesFrom(nodes, i, acc) ==
    IF i > Len(nodes) THEN <<>>
    ELSE WrittenKey(nodes[i], acc.stack, acc.evaluated_state, acc.cursor)
            \o WritesFrom(nodes, i + 1,
                  EvaluateAndAdd(nodes[i], acc.stack, acc.evaluated_state, acc.cursor))

\* the children of the popped node left without a key by the first call
NotEvaluatedAfter(node, first) ==
    SelectSeq(Children(node),
              LAMBDA n : StateStr(n.state) \notin DOMAIN first.evaluated_state)

\* the keys written in one pass of the while body, in the order of the
\* assignments
PassWrites(stk, table, cur) ==
    WrittenKey(stk[Len(stk)], SubSeq(stk, 1, Len(stk) - 1), table, cur)
        \o WritesFrom(
              NotEvaluatedAfter(stk[Len(stk)],
                  EvaluateAndAdd(stk[Len(stk)], SubSeq(stk, 1, Len(stk) - 1), table, cur)),
              1,
              EvaluateAndAdd(stk[Len(stk)], SubSeq(stk, 1, Len(stk) - 1), table, cur))

\* a pass of the while body is about to run
LoopPass ==
    /\ engine = "iterative"
    /\ pc = "while"
    /\ stack_length > 0
    /\ stack # <<>>

\* no key is written twice in the pass, and none that the table holds
WritesAreNew(writes, table) ==
    \A i \in 1..Len(writes) :
        /\ writes[i] \notin DOMAIN table
        /\ \A j \in 1..Len(writes) : j # i => writes[j] # writes[i]

(* C21: during one iterative search each state identity is scored and      *)
(* written to the table at most once: no pass of the loop assigns a key    *)
(* that the table already holds, or the same key twice.                    *)
C21_WrittenAtMostOnce ==
    [][LoopPass => WritesAreNew(PassWrites(stack, evaluated_state, current_state),
                                evaluated_state)]_vars

\* the table after each call of _evaluate_and_add for nodes[i], nodes[i + 1], ...
RECURSIVE TablesFrom(_, _, _)
TablesFrom(nodes, i, acc) ==
    IF i > Len(nodes) THEN <<>>
    ELSE <<EvaluateAndAdd(nodes[i], acc.stack, acc.evaluated_state, acc.cursor).evaluated_state>>
            \o TablesFrom(nodes, i + 1,
                  EvaluateAndAdd(nodes[i], acc.stack, acc.evaluated_state, acc.cursor))

\* the table before a pass of the while body and after each call of
\* _evaluate_and_add in it
PassTables(stk, table, cur) ==
    <<table,
      EvaluateAndAdd(stk[Len(stk)], SubSeq(stk, 1, Len(stk) - 1), table, cur).evaluated_state>>
        \o TablesFrom(
              NotEvaluatedAfter(stk[Len(stk)],
                  EvaluateAndAdd(stk[Len(stk)], SubSeq(stk, 1, Len(stk) - 1), table, cur)),
              1,
              EvaluateAndAdd(stk[Len(stk)], SubSeq(stk, 1, Len(stk) - 1), table, cur))

\* every key of table before is a key of table after, with the same score
Extends(before, after) ==
    \A key \in DOMAIN before :
        /\ key \in DOMAIN after
        /\ after[key] = before[key]

\* the table only grows from each call of _evaluate_and_add of a pass to
\* the next, and the pass leaves the last of these tables
GrowsThroughPass ==
    LoopPass =>
        /\ \A i \in 1..(Len(PassTables(stack, evaluated_state, current_state)) - 1) :
              Extends(PassTables(stack, evaluated_state, current_state)[i],
                      PassTables(stack, evaluated_state, current_state)[i + 1])
        /\ evaluated_state' =
              PassTables(stack, evaluated_state, current_state)
                 [Len(PassTables(stack, evaluated_state, current_state))]

(* C22: the memo table grows monotonically within one iterative search:    *)
(* once a key is present it is never removed and the score stored under it *)
(* never changes, from any step to the next and from any assignment of a   *)
(* pass to the next.                                                       *)
C22_TableOnlyGrows ==
    [][Extends(evaluated_state, evaluated_state') /\ GrowsThroughPass]_vars

\* the pass about to run assigns a key and then assigns it a second time
C22_Witness ==
    /\ LoopPass
    /\ ~WritesAreNew(PassWrites(stack, evaluated_state, current_state), evaluated_state)

\* the states one legal move away from s
Successors(s) ==
    {MakeMove(s, GetPossibleMoves(s)[i]) : i \in 1..Len(GetPossibleMoves(s))}

\* the states legal moves lead to from the states seen, frontier being
\* those of them whose successors are still to be taken
RECURSIVE ReachableSet(_, _)
ReachableSet(frontier, seen) ==
    IF frontier = {} THEN seen
    ELSE ReachableSet((UNION {Successors(s) : s \in frontier}) \ seen,
                      seen \cup UNION {Successors(s) : s \in frontier})

\* the identities of the states reachable from s by legal moves, s included
ReachableIdentities(s) == {StateStr(u) : u \in ReachableSet({s}, {s})}

(* C23: at every point of an iterative search every key of the memo table  *)
(* is the identity of a state reachable from the root by legal moves, so   *)
(* the table never has more entries than there are distinct reachable      *)
(* identities, however many paths lead to each state.                      *)
C23_KeysAreReachable ==
    engine = "iterative" =>
        /\ DOMAIN evaluated_state \subseteq ReachableIdentities(root)
        /\ Cardinality(DOMAIN evaluated_state) <= Cardinality(ReachableIdentities(root))

\* the table holds the key of a state that two different reachable states
\* lead to by a legal move
C23_Witness ==
    /\ engine = "iterative"
    /\ \E p, q \in ReachableSet({root}, {root}) :
          /\ p # q
          /\ \E s \in Successors(p) \cap Successors(q) :
                StateStr(s) \in DOMAIN evaluated_state

\* s is a state of the number-subtraction game or of the finger-transfer game
IsSubOrChop(s) == IsSubtractSquare(s) \/ IsChopsticks(s)

(* C24: in every state reachable by legal moves from a start position of   *)
(* the number-subtraction game or the finger-transfer game, is_over(state) *)
(* holds exactly when get_possible_moves() is empty, so a state that is    *)
(* not over has at least one child for max/min to be taken over.           *)
C24_OverIffNoMoves ==
    IsSubOrChop(current_state) =>
        (IsOver(current_state) <=> GetPossibleMoves(current_state) = <<>>)

\* play has come to a finger-transfer state where a player is out: the game
\* is over and the player to move has no move
C24_Witness ==
    /\ IsChopsticks(current_state)
    /\ call # <<>>
    /\ call.returned = <<current_state>>
    /\ IsOver(current_state)
    /\ GetPossibleMoves(current_state) = <<>>

\* is_winner holds in s, as the cursor, for exactly one of the two players
OneWinner(s) ==
    \E i \in 1..Len(PLAYERS) :
        /\ IsWinner(s, PLAYERS[i])
        /\ \A j \in 1..Len(PLAYERS) : j # i => ~IsWinner(s, PLAYERS[j])

(* C25: draws are impossible in the number-subtraction and finger-transfer *)
(* games: in every terminal state reachable by legal moves from a start    *)
(* position is_winner holds for exactly one of the two players, so a       *)
(* terminal score of -1 for a player means that the other player won.      *)
C25_NoDraws ==
    (IsSubOrChop(current_state) /\ IsOver(current_state)) =>
        /\ OneWinner(current_state)
        /\ \A i \in 1..Len(PLAYERS) :
              /\ GetScore(current_state, PLAYERS[i], current_state).score \in {WIN, LOSE}
              /\ GetScore(current_state, PLAYERS[i], current_state).score = LOSE
                    <=> IsWinner(current_state, GetNextPlayer(PLAYERS[i]))

\* play has ended a finger-transfer game, won by p2 and not by p1
C25_Witness ==
    /\ IsChopsticks(current_state)
    /\ call # <<>>
    /\ call.returned = <<current_state>>
    /\ IsOver(current_state)
    /\ IsWinner(current_state, "p2")
    /\ ~IsWinner(current_state, "p1")
    /\ GetScore(current_state, "p1", current_state).score = LOSE

\* recursive_minimax_scores(game, s, 'p1') is the negation of
\* recursive_minimax_scores(game, s, 'p2')
ZeroSum(s) == Score(s, "p1") = (-1) * Score(s, "p2")

(* C26: zero-sum symmetry of the exact score: for every state s of the     *)
(* number-subtraction game with a bounded start value, the score of s seen *)
(* by p1 is the negation of the score of s seen by p2. Stated of the state *)
(* a search starts from and of the state it leaves the game on.            *)
C26_ZeroSumSymmetry ==
    \A s \in {current_state, root} : IsSubtractSquare(s) => ZeroSum(s)

\* the scores of the value 20 with p1 to move have been computed: -1 seen by
\* p1, the mover, and +1 seen by p2
C26_Witness ==
    /\ engine = "scores"
    /\ pc = "returned"
    /\ root = SubtractSquareGameState("p1", 20)
    /\ result = <<Score(root, "p1")>>
    /\ Score(root, "p1") = -1
    /\ Score(root, "p2") = 1

\* the number of moves of the longest play from s
RECURSIVE LongestPlay(_)
LongestPlay(s) ==
    IF GetPossibleMoves(s) = <<>> THEN 0
    ELSE 1 + MaxOf([i \in 1..Len(GetPossibleMoves(s)) |->
                        LongestPlay(MakeMove(s, GetPossibleMoves(s)[i]))])

\* a state of a play of the number-subtraction game: the number is not
\* negative and not above the one the play began with, there is no legal
\* move exactly at 0, and no play from here has more moves than the number
SubPlayBounded ==
    IsSubtractSquare(current_state) =>
        /\ current_state.number >= 0
        /\ current_state.number <= root.number
        /\ GetPossibleMoves(current_state) = <<>> <=> current_state.number = 0
        /\ IsOver(current_state) <=> current_state.number = 0
        /\ LongestPlay(current_state) <= current_state.number

\* a legal move of the number-subtraction game lowers the number and does
\* not take it below 0
SubMoveDecreases ==
    IsSubtractSquare(current_state) =>
        /\ current_state'.number < current_state.number
        /\ current_state'.number >= 0

(* C27: in the number-subtraction game started at any n >= 0 every legal   *)
(* move strictly decreases the number and never makes it negative, so      *)
(* every play ends in the terminal state with number 0 after at most n     *)
(* moves.                                                                  *)
C27_SubtractionPlayEnds ==
    /\ []SubPlayBounded
    /\ [][SubMoveDecreases]_vars

\* a play from a number of 9 or more has ended at 0 after two moves or more
C27_Witness ==
    /\ IsSubtractSquare(current_state)
    /\ root.number >= 9
    /\ call # <<>>
    /\ call.on.number < root.number
    /\ current_state.number = 0
    /\ IsOver(current_state)

===========================================================================
